---------------------------- MODULE Spec2Model ----------------------------
(***************************************************************************)
(* kodo: the linear block decoder (on-line Gauss-Jordan elimination over a *)
(* finite field) on top of the deep symbol storage.                        *)
(*                                                                         *)
(* One decoder object is modelled.  Its state is the members of            *)
(* linear_block_decoder (m_rank, m_maximum_pivot, m_uncoded, m_coded), the *)
(* coefficient rows V and the payload rows S of the storage layers below   *)
(* it, and the symbol count of the current block.  Every public operation  *)
(* (initialize, decode, decode_raw) is one action that runs the whole      *)
(* handler, nested calls included.                                         *)
(***************************************************************************)
EXTENDS Integers, Naturals, FiniteSets, Sequences, TLC

(***************************************************************************)
(* Bounds                                                                  *)
(***************************************************************************)
\* construct(max_symbols, ...): the capacity k_max of the decoder.
MaxSymbols == 3

Slots == 0 .. (MaxSymbols - 1)

\* The payload of a symbol has one field element per slot of the capacity,
\* so that the source block below can be the standard basis.
Elems == 0 .. (MaxSymbols - 1)

\* max_symbols and max_symbol_size of construct for the byte storage taken
\* on its own
StorageMaxSymbols == 2
MaxSymbolSize == 2

(***************************************************************************)
(* The finite fields (the field_type template parameter).  "binary" is     *)
(* GF(2), for which fifi::is_binary holds; "prime3" is the prime field     *)
(* GF(3), a non-binary field: subtraction differs from addition and rows   *)
(* are scaled by coefficients other than 1.                                *)
(***************************************************************************)
Fields == {"binary", "prime3"}

is_binary(f) == f = "binary"

Order(f) == IF f = "binary" THEN 2 ELSE 3

Elements(f) == 0 .. (Order(f) - 1)

FieldSub(f, a, b) == (a + Order(f) - b) % Order(f)

FieldAdd(f, a, b) == (a + b) % Order(f)

FieldMul(f, a, b) == (a * b) % Order(f)

\* SuperCoder::invert(coefficient); the inverse of 0 does not exist, the
\* model returns 0 for it
invert(f, a) == IF a = 0 THEN 0 ELSE CHOOSE b \in Elements(f) : FieldMul(f, a, b) = 1

\* SuperCoder::subtract(dest, src, length): dest[i] -= src[i]
subtract(f, dest, src) == [j \in DOMAIN dest |-> FieldSub(f, dest[j], src[j])]

\* SuperCoder::multiply(dest, constant, length): dest[i] *= constant
multiply(f, dest, c) == [j \in DOMAIN dest |-> FieldMul(f, dest[j], c)]

\* SuperCoder::multiply_subtract(dest, src, constant, length):
\* dest[i] -= src[i] * constant
multiply_subtract(f, dest, src, c) ==
    [j \in DOMAIN dest |-> FieldSub(f, dest[j], FieldMul(f, src[j], c))]

\* vector_type::coefficient(index, vector)
coefficient(index, vector) == vector[index]

\* vector_type::set_coefficient(index, vector, value)
set_coefficient(index, vector, value) == [vector EXCEPT ![index] = value]

ZeroVector == [j \in Slots |-> 0]
ZeroSymbol == [e \in Elems |-> 0]

\* the elementary vector e_i
Unit(i) == [j \in Slots |-> IF j = i THEN 1 ELSE 0]

(***************************************************************************)
(* The block being transmitted.  Source symbol i is the i-th unit payload, *)
(* so a payload row spells out which linear combination of the source      *)
(* symbols it holds: two payloads are equal exactly when they are the same *)
(* combination of the originals.                                           *)
(***************************************************************************)
Original(i) == [e \in Elems |-> IF e = i THEN 1 ELSE 0]

\* element e of the sum over the columns h >= j of sv[h] * Original(h)
RECURSIVE EncodeFrom(_, _, _, _)
EncodeFrom(f, sv, e, j) ==
    IF j >= MaxSymbols THEN 0
    ELSE FieldAdd(f, FieldMul(f, sv[j], Original(j)[e]), EncodeFrom(f, sv, e, j + 1))

\* the payload of the packet with coefficient vector sv:
\* the sum over j of sv[j] * Original(j)
Encode(f, sv) == [e \in Elems |-> EncodeFrom(f, sv, e, 0)]

(***************************************************************************)
(* State                                                                   *)
(***************************************************************************)
VARIABLES
    field,            \* the field the decoder was built for
    symbols,          \* SuperCoder::symbols(), 0 before the first initialize
    m_rank,
    m_maximum_pivot,
    m_uncoded,
    m_coded,
    V,                \* SuperCoder::vector(i), the coefficient rows
    S,                \* SuperCoder::symbol(i), the payload rows
    fresh,            \* history: a second decoder object, constructed anew
                      \* at every initialize, initialized with the same
                      \* (k, m) and handed the same packets (a call on it
                      \* is not computed twice where the two objects are
                      \* equal in every member)
    absorbed,         \* history: a basis of the span of the coefficient vectors
                      \* of the packets passed to decode / decode_raw since
                      \* initialize
    m_data,           \* deep_symbol_storage::m_data of a storage object taken
                      \* on its own, with the symbols() and symbol_size() of
                      \* its last initialize
    st_symbols,
    st_symbol_size,
    st_last,          \* history: the last call on that storage object and
                      \* what it found: bytes stored, symbols, symbol_size
    last              \* history: the public call that produced this state:
                      \* op, its outcome, the index passed to decode_raw,
                      \* the pivot it stored at, whether the packet was a
                      \* combination of the earlier ones (inspan), and the
                      \* slots whose rows it rewrote (touched), and the
                      \* coefficient vector in the working buffer when the
                      \* call returned (vector)

decoder_vars ==
    <<field, symbols, m_rank, m_maximum_pivot, m_uncoded, m_coded, V, S,
      fresh, absorbed, last>>

storage_vars == <<m_data, st_symbols, st_symbol_size, st_last>>

vars == <<decoder_vars, storage_vars>>

\* what the decoder holds: the six things a packet may or may not change
decoder == <<m_rank, m_maximum_pivot, m_uncoded, m_coded, V, S>>

\* the decoder object as one value
Self ==
    [symbols |-> symbols, m_rank |-> m_rank, m_maximum_pivot |-> m_maximum_pivot,
     m_uncoded |-> m_uncoded, m_coded |-> m_coded, V |-> V, S |-> S]


(***************************************************************************)
(* linear_block_decoder.  Every member function is an operator on the      *)
(* decoder value d (see Self) and the field f; the caller's buffers        *)
(* symbol_data and symbol_id, which the coded path transforms in place,    *)
(* are passed in and returned.                                             *)
(*                                                                         *)
(* An intermediate result x of a function is named once and then used, as  *)
(* the code does with its variables, in the form                           *)
(*     Only({ ... x ... : x \in {e}})                                      *)
(* which computes e a single time.                                         *)
(***************************************************************************)
Only(set) == CHOOSE x \in set : TRUE

\* bool symbol_exists(index)
symbol_exists(d, index) == d.m_coded[index] \/ d.m_uncoded[index]

\* bool is_complete()
is_complete(d) == d.m_rank = d.symbols

\* uint32_t rank()
rank(d) == d.m_rank

\* one occupied row i subtracted from the working pair, as both forward
\* passes do it: XOR in the binary field, multiply_subtract with the
\* coefficient found at column i otherwise
subtract_row(f, d, symbol_data, symbol_id, i, value) ==
    IF is_binary(f)
    THEN [symbol_data |-> subtract(f, symbol_data, d.S[i]),
          symbol_id   |-> subtract(f, symbol_id, d.V[i])]
    ELSE [symbol_data |-> multiply_subtract(f, symbol_data, d.S[i], value),
          symbol_id   |-> multiply_subtract(f, symbol_id, d.V[i], value)]

\* the loop of forward_substitute_to_pivot, from column i on
RECURSIVE forward_to_pivot_loop(_, _, _, _, _)
forward_to_pivot_loop(f, d, symbol_data, symbol_id, i) ==
    IF i >= d.symbols
    THEN [found |-> FALSE, pivot |-> 0,
          symbol_data |-> symbol_data, symbol_id |-> symbol_id]
    ELSE IF coefficient(i, symbol_id) = 0
         THEN forward_to_pivot_loop(f, d, symbol_data, symbol_id, i + 1)
    ELSE IF symbol_exists(d, i)
         THEN Only({forward_to_pivot_loop(f, d, w.symbol_data, w.symbol_id, i + 1) :
                      w \in {subtract_row(f, d, symbol_data, symbol_id, i,
                                          coefficient(i, symbol_id))}})
    ELSE [found |-> TRUE, pivot |-> i,
          symbol_data |-> symbol_data, symbol_id |-> symbol_id]

\* faulty variant of forward_substitute_to_pivot: the plain subtraction of
\* the binary path is used in every field, the coefficient is not applied
RECURSIVE forward_to_pivot_plain_loop(_, _, _, _, _)
forward_to_pivot_plain_loop(f, d, symbol_data, symbol_id, i) ==
    IF i >= d.symbols
    THEN [found |-> FALSE, pivot |-> 0,
          symbol_data |-> symbol_data, symbol_id |-> symbol_id]
    ELSE IF coefficient(i, symbol_id) = 0
         THEN forward_to_pivot_plain_loop(f, d, symbol_data, symbol_id, i + 1)
    ELSE IF symbol_exists(d, i)
         THEN Only({forward_to_pivot_plain_loop(f, d, w.symbol_data, w.symbol_id, i + 1) :
                      w \in {[symbol_data |-> subtract(f, symbol_data, d.S[i]),
                              symbol_id   |-> subtract(f, symbol_id, d.V[i])]}})
    ELSE [found |-> TRUE, pivot |-> i,
          symbol_data |-> symbol_data, symbol_id |-> symbol_id]

\* faulty variant of forward_substitute_to_pivot: the pivot is the first
\* empty column with a non-zero coefficient, no stored row is subtracted
RECURSIVE forward_to_pivot_unreduced_loop(_, _, _, _, _)
forward_to_pivot_unreduced_loop(f, d, symbol_data, symbol_id, i) ==
    IF i >= d.symbols
    THEN [found |-> FALSE, pivot |-> 0,
          symbol_data |-> symbol_data, symbol_id |-> symbol_id]
    ELSE IF coefficient(i, symbol_id) = 0 \/ symbol_exists(d, i)
         THEN forward_to_pivot_unreduced_loop(f, d, symbol_data, symbol_id, i + 1)
    ELSE [found |-> TRUE, pivot |-> i,
          symbol_data |-> symbol_data, symbol_id |-> symbol_id]

forward_substitute_to_pivot_unreduced(f, d, symbol_data, symbol_id) ==
    forward_to_pivot_unreduced_loop(f, d, symbol_data, symbol_id, 0)

forward_substitute_to_pivot_plain(f, d, symbol_data, symbol_id) ==
    forward_to_pivot_plain_loop(f, d, symbol_data, symbol_id, 0)

\* boost::optional<uint32_t> forward_substitute_to_pivot(symbol_data, symbol_id)
forward_substitute_to_pivot(f, d, symbol_data, symbol_id) ==
    forward_to_pivot_loop(f, d, symbol_data, symbol_id, 0)

\* faulty variant of normalize: the coefficient vector is scaled, the
\* payload is not
normalize_vector_only(f, symbol_data, symbol_id, pivot_index) ==
    [symbol_id   |-> multiply(f, symbol_id,
                              invert(f, coefficient(pivot_index, symbol_id))),
     symbol_data |-> symbol_data]

\* faulty variant of normalize: the inverse is taken of the coefficient at
\* column 0 instead of the pivot column
normalize_first_column(f, symbol_data, symbol_id, pivot_index) ==
    Only({[symbol_id   |-> multiply(f, symbol_id, inverted_coefficient),
           symbol_data |-> multiply(f, symbol_data, inverted_coefficient)] :
            inverted_coefficient \in {invert(f, coefficient(0, symbol_id))}})

\* faulty variant of normalize: nothing is scaled
normalize_skipped(f, symbol_data, symbol_id, pivot_index) ==
    [symbol_id |-> symbol_id, symbol_data |-> symbol_data]

\* void normalize(symbol_data, symbol_id, pivot_index)
normalize(f, symbol_data, symbol_id, pivot_index) ==
    Only({[symbol_id   |-> multiply(f, symbol_id, inverted_coefficient),
           symbol_data |-> multiply(f, symbol_data, inverted_coefficient)] :
            inverted_coefficient \in
                {invert(f, coefficient(pivot_index, symbol_id))}})

\* the loop of forward_substitute_from_pivot, from column i on
RECURSIVE forward_from_pivot_loop(_, _, _, _, _)
forward_from_pivot_loop(f, d, symbol_data, symbol_id, i) ==
    IF i > d.m_maximum_pivot
    THEN [symbol_data |-> symbol_data, symbol_id |-> symbol_id]
    ELSE IF coefficient(i, symbol_id) = 0
         THEN forward_from_pivot_loop(f, d, symbol_data, symbol_id, i + 1)
    ELSE IF symbol_exists(d, i)
         THEN Only({forward_from_pivot_loop(f, d, w.symbol_data, w.symbol_id, i + 1) :
                      w \in {subtract_row(f, d, symbol_data, symbol_id, i,
                                          coefficient(i, symbol_id))}})
    ELSE forward_from_pivot_loop(f, d, symbol_data, symbol_id, i + 1)

\* faulty variant of forward_substitute_from_pivot: the loop stops one
\* column early and leaves out the row at the maximum pivot
RECURSIVE forward_from_pivot_short_loop(_, _, _, _, _)
forward_from_pivot_short_loop(f, d, symbol_data, symbol_id, i) ==
    IF i >= d.m_maximum_pivot
    THEN [symbol_data |-> symbol_data, symbol_id |-> symbol_id]
    ELSE IF coefficient(i, symbol_id) # 0 /\ symbol_exists(d, i)
         THEN Only({forward_from_pivot_short_loop(f, d, w.symbol_data, w.symbol_id, i + 1) :
                      w \in {subtract_row(f, d, symbol_data, symbol_id, i,
                                          coefficient(i, symbol_id))}})
    ELSE forward_from_pivot_short_loop(f, d, symbol_data, symbol_id, i + 1)

forward_substitute_from_pivot_short(f, d, symbol_data, symbol_id, pivot_index) ==
    forward_from_pivot_short_loop(f, d, symbol_data, symbol_id, pivot_index + 1)

\* faulty variant of forward_substitute_from_pivot: the rows above the pivot
\* are not subtracted
forward_substitute_from_pivot_skipped(f, d, symbol_data, symbol_id, pivot_index) ==
    [symbol_data |-> symbol_data, symbol_id |-> symbol_id]

\* void forward_substitute_from_pivot(symbol_data, symbol_id, pivot_index)
forward_substitute_from_pivot(f, d, symbol_data, symbol_id, pivot_index) ==
    forward_from_pivot_loop(f, d, symbol_data, symbol_id, pivot_index + 1)

\* faulty variant of backward_step: whether and how often the packet is
\* subtracted from row i is read off row 0 instead of row i
backward_step_by_row_0(f, d, symbol_data, symbol_id, pivot_index, i) ==
    IF d.m_uncoded[i] \/ i = pivot_index \/ ~d.m_coded[i] THEN d
    ELSE Only({[d EXCEPT !.V[i] = multiply_subtract(f, @, symbol_id, value),
                         !.S[i] = multiply_subtract(f, @, symbol_data, value)] :
                 value \in {coefficient(pivot_index, d.V[0])}})

\* faulty variant of backward_step: the packet is subtracted from every
\* other row, whatever its flags and its coefficient at the pivot
backward_step_unconditional(f, d, symbol_data, symbol_id, pivot_index, i) ==
    IF i = pivot_index THEN d
    ELSE [d EXCEPT !.V[i] = subtract(f, @, symbol_id),
                   !.S[i] = subtract(f, @, symbol_data)]

\* faulty variant of backward_step: the coefficient row is updated, the
\* payload row is not
backward_step_vector_only(f, d, symbol_data, symbol_id, pivot_index, i) ==
    IF d.m_uncoded[i] \/ i = pivot_index \/ ~d.m_coded[i] THEN d
    ELSE Only({[d EXCEPT !.V[i] = multiply_subtract(f, @, symbol_id, value)] :
                 value \in {coefficient(pivot_index, d.V[i])}})

\* the body of the loop of backward_substitute for row i
backward_step(f, d, symbol_data, symbol_id, pivot_index, i) ==
    IF d.m_uncoded[i] THEN d
    ELSE IF i = pivot_index THEN d
    ELSE IF d.m_coded[i]
         THEN IF coefficient(pivot_index, d.V[i]) # 0
              THEN IF is_binary(f)
                   THEN [d EXCEPT !.V[i] = subtract(f, @, symbol_id),
                                  !.S[i] = subtract(f, @, symbol_data)]
                   ELSE Only({[d EXCEPT
                                 !.V[i] = multiply_subtract(f, @, symbol_id, value),
                                 !.S[i] = multiply_subtract(f, @, symbol_data, value)] :
                               value \in {coefficient(pivot_index, d.V[i])}})
              ELSE d
    ELSE d

\* the loop of backward_substitute, from row i on
RECURSIVE backward_loop(_, _, _, _, _, _)
backward_loop(f, d, symbol_data, symbol_id, pivot_index, i) ==
    IF i > d.m_maximum_pivot THEN d
    ELSE Only({backward_loop(f, e, symbol_data, symbol_id, pivot_index, i + 1) :
                 e \in {backward_step(f, d, symbol_data, symbol_id, pivot_index, i)}})

\* void backward_substitute(symbol_data, symbol_id, pivot_index)
backward_substitute(f, d, symbol_data, symbol_id, pivot_index) ==
    backward_loop(f, d, symbol_data, symbol_id, pivot_index, 0)

\* void store_coded_symbol(symbol_data, symbol_id, pivot_index)
store_coded_symbol(d, symbol_data, symbol_id, pivot_index) ==
    [d EXCEPT !.V[pivot_index] = symbol_id,
              !.S[pivot_index] = symbol_data]

\* void store_uncoded_symbol(symbol_data, pivot_index)
store_uncoded_symbol(d, symbol_data, pivot_index) ==
    [d EXCEPT !.S[pivot_index] = symbol_data,
              !.V[pivot_index] = set_coefficient(pivot_index, @, 1)]

\* faulty variant of decode_store: the rank is not increased
decode_store_uncounted(f, d, w, pivot_index) ==
    Only({[d |-> [e EXCEPT !.m_coded[pivot_index] = TRUE,
                           !.m_maximum_pivot =
                               IF pivot_index > @ THEN pivot_index ELSE @],
           found |-> TRUE, pivot |-> pivot_index,
           symbol_data |-> w.symbol_data, symbol_id |-> w.symbol_id] :
            e \in {store_coded_symbol(
                      backward_substitute(f, d, w.symbol_data, w.symbol_id,
                                          pivot_index),
                      w.symbol_data, w.symbol_id, pivot_index)}})

\* decode_with_vector, from backward_substitute to the end: w is the
\* working pair as forward_substitute_from_pivot has left it
decode_store(f, d, w, pivot_index) ==
    Only({[d |-> [e EXCEPT !.m_rank = @ + 1,
                           !.m_coded[pivot_index] = TRUE,
                           !.m_maximum_pivot =
                               IF pivot_index > @ THEN pivot_index ELSE @],
           found |-> TRUE, pivot |-> pivot_index,
           symbol_data |-> w.symbol_data, symbol_id |-> w.symbol_id] :
            e \in {store_coded_symbol(
                      backward_substitute(f, d, w.symbol_data, w.symbol_id,
                                          pivot_index),
                      w.symbol_data, w.symbol_id, pivot_index)}})

\* decode_with_vector, from forward_substitute_from_pivot on: w is the
\* working pair, normalized in a non-binary field
decode_reduce(f, d, w, pivot_index) ==
    Only({decode_store(f, d, from, pivot_index) :
            from \in {forward_substitute_from_pivot(f, d, w.symbol_data,
                                                    w.symbol_id, pivot_index)}})

\* decode_with_vector, after forward_substitute_to_pivot has returned `to`
decode_from_pivot(f, d, to) ==
    IF ~to.found
    THEN [d |-> d, found |-> FALSE, pivot |-> 0,
          symbol_data |-> to.symbol_data, symbol_id |-> to.symbol_id]
    ELSE IF ~is_binary(f)
    THEN Only({decode_reduce(f, d, w, to.pivot) :
                 w \in {normalize(f, to.symbol_data, to.symbol_id, to.pivot)}})
    ELSE decode_reduce(f, d, to, to.pivot)

\* void decode_with_vector(symbol_data, symbol_id).  The result carries the
\* decoder, the caller's two buffers as the call leaves them, and the pivot.
decode_with_vector(f, d, symbol_data, symbol_id) ==
    Only({decode_from_pivot(f, d, to) :
            to \in {forward_substitute_to_pivot(f, d, symbol_data, symbol_id)}})

\* faulty variant of swap_clear: the pivot coefficient of the row that is
\* taken out is not set to zero
swap_clear_keep_coefficient(f, d, symbol_data, pivot_index) ==
    [d EXCEPT !.m_coded[pivot_index] = FALSE,
              !.S[pivot_index] = subtract(f, @, symbol_data)]

\* faulty variant of swap_clear: the raw symbol is not subtracted from the
\* payload of the row that is taken out
swap_clear_keep_payload(f, d, symbol_data, pivot_index) ==
    [d EXCEPT !.m_coded[pivot_index] = FALSE,
              !.V[pivot_index] = set_coefficient(pivot_index, @, 0)]

\* swap_decode, up to the subtraction of the raw symbol: the coded flag is
\* cleared, the pivot coefficient zeroed, symbol_data subtracted from S[i]
swap_clear(f, d, symbol_data, pivot_index) ==
    [d EXCEPT !.m_coded[pivot_index] = FALSE,
              !.V[pivot_index] = set_coefficient(pivot_index, @, 0),
              !.S[pivot_index] = subtract(f, @, symbol_data)]

\* faulty variant of swap_store: the uncoded flag of the slot is not set
swap_store_unflagged(re, symbol_data, pivot_index) ==
    LET d2 == [re.d EXCEPT !.V[pivot_index] = re.symbol_id,
                           !.S[pivot_index] = re.symbol_data]
        d3 == [d2 EXCEPT !.V[pivot_index] = ZeroVector]
    IN  [d |-> store_uncoded_symbol(d3, symbol_data, pivot_index),
         found |-> re.found, pivot |-> re.pivot, symbol_id |-> re.symbol_id]

\* swap_decode, after the nested decode_with_vector has returned re.  That
\* call worked in place on the storage rows of pivot_index (symbol_i,
\* vector_i), so what it left in its buffers is what those rows hold.
swap_store(re, symbol_data, pivot_index) ==
    LET d2 == [re.d EXCEPT !.V[pivot_index] = re.symbol_id,
                           !.S[pivot_index] = re.symbol_data]
        d3 == [d2 EXCEPT !.V[pivot_index] = ZeroVector]
        d4 == store_uncoded_symbol(d3, symbol_data, pivot_index)
    IN  [d |-> [d4 EXCEPT !.m_uncoded[pivot_index] = TRUE],
         found |-> re.found, pivot |-> re.pivot, symbol_id |-> re.symbol_id]

\* swap_store without the zero fill of the row
swap_store_no_fill(re, symbol_data, pivot_index) ==
    LET d2 == [re.d EXCEPT !.V[pivot_index] = re.symbol_id,
                           !.S[pivot_index] = re.symbol_data]
        d4 == store_uncoded_symbol(d2, symbol_data, pivot_index)
    IN  [d |-> [d4 EXCEPT !.m_uncoded[pivot_index] = TRUE],
         found |-> re.found, pivot |-> re.pivot, symbol_id |-> re.symbol_id]

\* swap_decode, from the nested decode_with_vector on
swap_reabsorb(f, d1, symbol_data, pivot_index) ==
    Only({swap_store(re, symbol_data, pivot_index) :
            re \in {decode_with_vector(f, d1, d1.S[pivot_index],
                                       d1.V[pivot_index])}})

\* faulty variant of swap_decode: the raw symbol is counted on top of the
\* rank the nested decode_with_vector has set
swap_decode_counting_raw(f, d, symbol_data, pivot_index) ==
    Only({[sw EXCEPT !.d.m_rank = @ + 1] :
            sw \in {swap_reabsorb(f, d1, symbol_data, pivot_index) :
                      d1 \in {swap_clear(f, d, symbol_data, pivot_index)}}})

\* faulty variant of swap_decode: the rank is decreased for the coded row
\* that is taken out of its slot
swap_decode_uncounting(f, d, symbol_data, pivot_index) ==
    Only({swap_reabsorb(f, d1, symbol_data, pivot_index) :
            d1 \in {[swap_clear(f, d, symbol_data, pivot_index)
                        EXCEPT !.m_rank = @ - 1]}})

\* faulty variant of swap_decode: the row is not zero-filled before the raw
\* symbol is stored in it
swap_decode_no_fill(f, d, symbol_data, pivot_index) ==
    Only({swap_store_no_fill(re, symbol_data, pivot_index) :
            re \in {decode_with_vector(f, d1, d1.S[pivot_index], d1.V[pivot_index]) :
                      d1 \in {swap_clear(f, d, symbol_data, pivot_index)}}})

\* void swap_decode(symbol_data, pivot_index)
swap_decode(f, d, symbol_data, pivot_index) ==
    Only({swap_reabsorb(f, d1, symbol_data, pivot_index) :
            d1 \in {swap_clear(f, d, symbol_data, pivot_index)}})

\* decode_raw, the branch of a coded slot
raw_swap(f, d, symbol_data, symbol_index) ==
    Only({[d |-> sw.d,
           outcome |-> IF sw.found THEN "swap_stored" ELSE "swap_dropped",
           pivot |-> IF sw.found THEN sw.pivot ELSE symbol_index,
           symbol_id |-> sw.symbol_id] :
            sw \in {swap_decode(f, d, symbol_data, symbol_index)}})

\* decode_raw, the branch of an empty slot, after store_uncoded_symbol has
\* returned d1
raw_insert(f, d1, symbol_data, symbol_index) ==
    Only({[d |-> [d2 EXCEPT !.m_rank = @ + 1,
                            !.m_uncoded[symbol_index] = TRUE,
                            !.m_maximum_pivot =
                                IF symbol_index > @ THEN symbol_index ELSE @],
           outcome |-> "raw", pivot |-> symbol_index,
           symbol_id |-> d1.V[symbol_index]] :
            d2 \in {backward_substitute(f, d1, symbol_data, d1.V[symbol_index],
                                        symbol_index)}})

\* raw_insert without the update of the maximum pivot
raw_insert_no_max_pivot(f, d1, symbol_data, symbol_index) ==
    Only({[d |-> [d2 EXCEPT !.m_rank = @ + 1,
                            !.m_uncoded[symbol_index] = TRUE],
           outcome |-> "raw", pivot |-> symbol_index,
           symbol_id |-> d1.V[symbol_index]] :
            d2 \in {backward_substitute(f, d1, symbol_data, d1.V[symbol_index],
                                        symbol_index)}})

\* faulty variant of decode_raw: no early return for an uncoded slot
decode_raw_no_duplicate_check(f, d, symbol_data, symbol_index) ==
    IF d.m_coded[symbol_index]
    THEN raw_swap(f, d, symbol_data, symbol_index)
    ELSE Only({raw_insert(f, d1, symbol_data, symbol_index) :
                 d1 \in {[d EXCEPT !.S[symbol_index] = symbol_data,
                                   !.V[symbol_index] =
                                       set_coefficient(symbol_index, @, 1)]}})

\* faulty variant of decode_raw: the maximum pivot is not raised by a raw
\* insertion
decode_raw_no_max_pivot(f, d, symbol_data, symbol_index) ==
    IF d.m_uncoded[symbol_index]
    THEN [d |-> d, outcome |-> "duplicate", pivot |-> symbol_index,
          symbol_id |-> d.V[symbol_index]]
    ELSE IF d.m_coded[symbol_index]
    THEN raw_swap(f, d, symbol_data, symbol_index)
    ELSE Only({raw_insert_no_max_pivot(f, d1, symbol_data, symbol_index) :
                 d1 \in {store_uncoded_symbol(d, symbol_data, symbol_index)}})

\* void decode_raw(symbol_data, symbol_index)
decode_raw(f, d, symbol_data, symbol_index) ==
    IF d.m_uncoded[symbol_index]
    THEN [d |-> d, outcome |-> "duplicate", pivot |-> symbol_index,
          symbol_id |-> d.V[symbol_index]]
    ELSE IF d.m_coded[symbol_index]
    THEN raw_swap(f, d, symbol_data, symbol_index)
    ELSE Only({raw_insert(f, d1, symbol_data, symbol_index) :
                 d1 \in {store_uncoded_symbol(d, symbol_data, symbol_index)}})

\* void decode(symbol_data, symbol_id)
decode(f, d, symbol_data, symbol_id) ==
    Only({[d |-> r.d,
           outcome |-> IF r.found THEN "stored" ELSE "dependent",
           pivot |-> r.pivot, symbol_id |-> r.symbol_id] :
            r \in {decode_with_vector(f, d, symbol_data, symbol_id)}})

\* deep_symbol_storage::initialize(symbols, symbol_size): the whole buffer
\* of the capacity is zero-filled
symbol_storage_initialize(d, k) ==
    [d EXCEPT !.symbols = k, !.S = [i \in Slots |-> ZeroSymbol]]

\* the initialize of the coefficient vector storage: rows blanked
vector_storage_initialize(d, k) ==
    [d EXCEPT !.V = [i \in Slots |-> ZeroVector]]

\* faulty variant of initialize: the coefficient rows of the earlier block
\* are kept
initialize_rows_kept(d, k) ==
    [symbol_storage_initialize(d, k)
        EXCEPT !.m_uncoded = [i \in Slots |-> IF i < k THEN FALSE ELSE @[i]],
               !.m_coded   = [i \in Slots |-> IF i < k THEN FALSE ELSE @[i]],
               !.m_rank = 0,
               !.m_maximum_pivot = 0]

\* faulty variant of initialize: the flags of the earlier block are kept
initialize_flags_kept(d, k) ==
    [vector_storage_initialize(symbol_storage_initialize(d, k), k)
        EXCEPT !.m_rank = 0, !.m_maximum_pivot = 0]

\* void initialize(symbols, symbol_size): SuperCoder::initialize, then the
\* first `symbols` flags are cleared and rank and maximum pivot reset
initialize(d, k) ==
    LET sup == vector_storage_initialize(symbol_storage_initialize(d, k), k) IN
    [sup EXCEPT !.m_uncoded = [i \in Slots |-> IF i < k THEN FALSE ELSE @[i]],
                !.m_coded   = [i \in Slots |-> IF i < k THEN FALSE ELSE @[i]],
                !.m_rank = 0,
                !.m_maximum_pivot = 0]

(***************************************************************************)
(* deep_symbol_storage on its own: one byte buffer of max_symbols *        *)
(* max_symbol_size bytes; symbol(index) points into it at index *          *)
(* symbol_size().  st is the storage object [symbols, symbol_size, m_data]. *)
(***************************************************************************)
\* a byte of the buffer, told apart as zero or not zero
Bytes == {0, 1}

DataIndex == 0 .. (StorageMaxSymbols * MaxSymbolSize - 1)

\* construct(max_symbols, max_symbol_size): m_data.resize(max_data_needed, 0)
storage_construct ==
    [symbols |-> 0, symbol_size |-> 0, m_data |-> [b \in DataIndex |-> 0]]

\* faulty variant of storage_initialize: the buffer is not filled
storage_initialize_no_fill(st, k, m) ==
    [st EXCEPT !.symbols = k, !.symbol_size = m]

\* initialize(symbols, symbol_size): SuperCoder::initialize, then
\* std::fill(m_data.begin(), m_data.end(), 0)
storage_initialize(st, k, m) ==
    [symbols |-> k, symbol_size |-> m, m_data |-> [b \in DataIndex |-> 0]]

\* symbol(index): the symbol_size() bytes at &m_data[index * symbol_size()]
symbol(st, index) ==
    [b \in 0 .. (st.symbol_size - 1) |-> st.m_data[index * st.symbol_size + b]]

\* copy_storage(dest, src): the src.m_size bytes of src written from
\* offset on
copy_storage(data, offset, src, size) ==
    [b \in DataIndex |->
        IF offset <= b /\ b < offset + size THEN src[b - offset] ELSE data[b]]

\* set_symbols(symbol_storage), m_size = symbols() * symbol_size()
set_symbols(st, symbol_storage) ==
    [st EXCEPT !.m_data = copy_storage(@, 0, symbol_storage,
                                       st.symbols * st.symbol_size)]

\* set_symbol(index, symbol), m_size = symbol_size()
set_symbol(st, index, sym) ==
    [st EXCEPT !.m_data = copy_storage(@, index * st.symbol_size, sym,
                                       st.symbol_size)]

(***************************************************************************)
(* Packets.  A coded packet of a block of k symbols has a coefficient for  *)
(* each of the k columns; its payload is the combination of the source     *)
(* symbols that the coefficients state.                                    *)
(***************************************************************************)
Vectors(f, k) ==
    {sv \in [Slots -> Elements(f)] : \A j \in Slots : j >= k => sv[j] = 0}

(***************************************************************************)
(* History of the packets handed to the decoder, kept apart from the       *)
(* decoder's own state: `absorbed` is the reduced row echelon basis of the *)
(* span of the coefficient vectors seen since initialize, row j being the  *)
(* basis vector with leading column j (the zero vector when there is       *)
(* none).  The basis depends on the span only, not on the order in which   *)
(* the packets came.                                                       *)
(***************************************************************************)
NoBasis == [j \in Slots |-> ZeroVector]

Lead(B) == {j \in Slots : B[j] # ZeroVector}

\* sv reduced by the basis rows with leading column >= j
RECURSIVE Residual(_, _, _, _)
Residual(f, B, sv, j) ==
    IF j >= MaxSymbols THEN sv
    ELSE IF sv[j] # 0 /\ B[j] # ZeroVector
         THEN Only({Residual(f, B, res, j + 1) :
                      res \in {[c \in Slots |->
                                  FieldSub(f, sv[c], FieldMul(f, sv[j], B[j][c]))]}})
         ELSE Residual(f, B, sv, j + 1)

\* sv is a linear combination of the vectors seen so far
InSpan(f, B, sv) == Residual(f, B, sv, 0) = ZeroVector

\* the dimension of the span
Dim(B) == Cardinality(Lead(B))

\* the basis B with the row `row`, leading column p, put in
Insert(f, B, row, p) ==
    [j \in Slots |->
        IF j = p THEN row
        ELSE [c \in Slots |-> FieldSub(f, B[j][c], FieldMul(f, B[j][p], row[c]))]]

\* the residual res # 0 scaled to a leading coefficient of 1
Leading(res) == CHOOSE j \in Slots : res[j] # 0 /\ \A h \in Slots : h < j => res[h] = 0

Scaled(f, res) ==
    Only({[c \in Slots |-> FieldMul(f, res[c], inv)] :
            inv \in {b \in Elements(f) : FieldMul(f, res[Leading(res)], b) = 1}})

\* the basis of the span with sv added
SpanAdd(f, B, sv) ==
    Only({IF res = ZeroVector THEN B
          ELSE Only({Insert(f, B, row, Leading(res)) : row \in {Scaled(f, res)}}) :
            res \in {Residual(f, B, sv, 0)}})

(***************************************************************************)
(* The specification                                                       *)
(***************************************************************************)
\* the slots whose coefficient row or payload row a call has rewritten
Touched(d, e) == {i \in Slots : d.V[i] # e.V[i] \/ d.S[i] # e.S[i]}

Assign(d) ==
    /\ symbols' = d.symbols
    /\ m_rank' = d.m_rank
    /\ m_maximum_pivot' = d.m_maximum_pivot
    /\ m_uncoded' = d.m_uncoded
    /\ m_coded' = d.m_coded
    /\ V' = d.V
    /\ S' = d.S

\* a decoder object after its constructor and construct(MaxSymbols, ...)
Constructed ==
    [symbols |-> 0, m_rank |-> 0, m_maximum_pivot |-> 0,
     m_uncoded |-> [i \in Slots |-> FALSE], m_coded |-> [i \in Slots |-> FALSE],
     V |-> [i \in Slots |-> ZeroVector], S |-> [i \in Slots |-> ZeroSymbol]]

\* the storage object as one value
Storage == [symbols |-> st_symbols, symbol_size |-> st_symbol_size, m_data |-> m_data]

AssignStorage(st) ==
    /\ st_symbols' = st.symbols
    /\ st_symbol_size' = st.symbol_size
    /\ m_data' = st.m_data

\* what a call on the storage object found
Found(op) ==
    [op |-> op, stored |-> (\E b \in DataIndex : m_data[b] # 0),
     symbols |-> st_symbols, symbol_size |-> st_symbol_size]

\* the storage object after construct(StorageMaxSymbols, MaxSymbolSize)
StorageInit ==
    /\ st_symbols = storage_construct.symbols
    /\ st_symbol_size = storage_construct.symbol_size
    /\ m_data = storage_construct.m_data
    /\ st_last = [op |-> "construct", stored |-> FALSE, symbols |-> 0, symbol_size |-> 0]

\* the decoder after construct(MaxSymbols, ...), before the first initialize
Init ==
    /\ field \in Fields
    /\ symbols = 0
    /\ m_rank = 0
    /\ m_maximum_pivot = 0
    /\ m_uncoded = [i \in Slots |-> FALSE]
    /\ m_coded = [i \in Slots |-> FALSE]
    /\ V = [i \in Slots |-> ZeroVector]
    /\ S = [i \in Slots |-> ZeroSymbol]
    /\ fresh = Constructed
    /\ StorageInit
    /\ absorbed = NoBasis
    /\ last = [op |-> "construct", outcome |-> "none", index |-> 0, pivot |-> 0,
               inspan |-> FALSE, touched |-> {}, vector |-> ZeroVector]

\* initialize(k, m) with 0 < k <= k_max
Initialize ==
    \E k \in 1 .. MaxSymbols :
        /\ \E d \in {initialize(Self, k)} : Assign(d)
        /\ fresh' = initialize(Constructed, k)
        /\ absorbed' = NoBasis
        /\ last' = [op |-> "initialize", outcome |-> "none", index |-> 0,
                    pivot |-> 0, inspan |-> FALSE, touched |-> {},
                    vector |-> ZeroVector]
        /\ UNCHANGED <<field, storage_vars>>

\* decode(sd, sv) with a consistent coded packet
Decode ==
    /\ symbols > 0
    /\ \E sv \in Vectors(field, symbols) :
          \E r \in {decode(field, Self, sd, sv) : sd \in {Encode(field, sv)}} :
          \E b \in {SpanAdd(field, absorbed, sv)} :
          /\ Assign(r.d)
          /\ fresh' = IF fresh = Self THEN r.d
                      ELSE Only({decode(field, fresh, sd, sv).d :
                                   sd \in {Encode(field, sv)}})
          /\ absorbed' = b
          /\ last' = [op |-> "decode", outcome |-> r.outcome, index |-> 0,
                      pivot |-> r.pivot, inspan |-> (b = absorbed),
                      touched |-> Touched(Self, r.d), vector |-> r.symbol_id]
    /\ UNCHANGED <<field, storage_vars>>

\* decode_raw(sd, i) with source symbol i, i < k
DecodeRaw ==
    /\ symbols > 0
    /\ \E i \in 0 .. (symbols - 1) :
          \E r \in {decode_raw(field, Self, Original(i), i)} :
          \E b \in {SpanAdd(field, absorbed, Unit(i))} :
          /\ Assign(r.d)
          /\ fresh' = IF fresh = Self THEN r.d
                      ELSE decode_raw(field, fresh, Original(i), i).d
          /\ absorbed' = b
          /\ last' = [op |-> "decode_raw", outcome |-> r.outcome, index |-> i,
                      pivot |-> r.pivot, inspan |-> (b = absorbed),
                      touched |-> Touched(Self, r.d), vector |-> r.symbol_id]
    /\ UNCHANGED <<field, storage_vars>>

Next == Initialize \/ Decode \/ DecodeRaw

Spec == Init /\ [][Next]_vars

(***************************************************************************)
(* Calls that break the precondition index < symbols().  The precondition  *)
(* is stated with assert only: a build with assertions aborts, a build     *)
(* with NDEBUG has no check and runs the body.  Indices stay below         *)
(* max_symbols, the size of the flag vectors and of the row storage.       *)
(***************************************************************************)
\* the program runs until an assertion fails
Running == last.outcome # "abort"

\* decode_raw(sd, i) with symbols() <= i < max_symbols
DecodeRawOutOfRange ==
    /\ Running
    /\ symbols > 0
    /\ \E i \in symbols .. (MaxSymbols - 1) :
          \/ /\ last' = [op |-> "decode_raw", outcome |-> "abort", index |-> i,
                          pivot |-> 0, inspan |-> FALSE, touched |-> {},
                    vector |-> ZeroVector]
             /\ UNCHANGED <<symbols, decoder>>
          \/ \E r \in {decode_raw(field, Self, Original(i), i)} :
                /\ Assign(r.d)
                /\ last' = [op |-> "decode_raw", outcome |-> r.outcome, index |-> i,
                            pivot |-> r.pivot, inspan |-> FALSE,
                            touched |-> Touched(Self, r.d), vector |-> r.symbol_id]
    /\ UNCHANGED <<field, fresh, absorbed, storage_vars>>

\* symbol_exists(i) with symbols() <= i < max_symbols: aborts, or returns
\* what the flags of slot i hold
SymbolExistsOutOfRange ==
    /\ Running
    /\ symbols > 0
    /\ \E i \in symbols .. (MaxSymbols - 1) :
          \E outcome \in {"abort", IF symbol_exists(Self, i) THEN "true" ELSE "false"} :
             last' = [op |-> "symbol_exists", outcome |-> outcome, index |-> i,
                      pivot |-> 0, inspan |-> FALSE, touched |-> {},
                    vector |-> ZeroVector]
    /\ UNCHANGED <<field, symbols, decoder, fresh, absorbed, storage_vars>>

\* the calls of Spec, as long as the program runs
RunningInitialize == Running /\ Initialize

RunningDecode == Running /\ Decode

RunningDecodeRaw == Running /\ DecodeRaw

MisuseNext ==
    \/ RunningInitialize
    \/ RunningDecode
    \/ RunningDecodeRaw
    \/ DecodeRawOutOfRange
    \/ SymbolExistsOutOfRange

MisuseSpec == Init /\ [][MisuseNext]_vars

(***************************************************************************)
(* The storage object on its own, as a stack without a decoder uses it     *)
(***************************************************************************)
\* initialize(k, m) with 0 < k <= max_symbols, 0 < m <= max_symbol_size
\* of the storage
StorageInitialize ==
    /\ \E k \in 1 .. StorageMaxSymbols : \E m \in 1 .. MaxSymbolSize :
          AssignStorage(storage_initialize(Storage, k, m))
    /\ st_last' = Found("initialize")
    /\ UNCHANGED decoder_vars

\* set_symbols(symbol_storage) with a buffer of the size of the block
SetSymbols ==
    /\ st_symbols > 0
    /\ \E symbol_storage \in [0 .. (st_symbols * st_symbol_size - 1) -> Bytes] :
          AssignStorage(set_symbols(Storage, symbol_storage))
    /\ st_last' = Found("set_symbols")
    /\ UNCHANGED decoder_vars

\* set_symbol(index, symbol) with index < symbols(); a decoder writing a
\* row through symbol(index) stores the same bytes in the same place
SetSymbol ==
    /\ st_symbols > 0
    /\ \E index \in 0 .. (st_symbols - 1) :
       \E sym \in [0 .. (st_symbol_size - 1) -> Bytes] :
          AssignStorage(set_symbol(Storage, index, sym))
    /\ st_last' = Found("set_symbol")
    /\ UNCHANGED decoder_vars

StorageNext == StorageInitialize \/ SetSymbols \/ SetSymbol

StorageSpec == Init /\ [][StorageNext]_vars

(***************************************************************************)
(* Properties                                                              *)
(***************************************************************************)
\* the slots of the current block
Block == 0 .. (symbols - 1)

Occupied(i) == m_uncoded[i] \/ m_coded[i]

\* every payload a caller could pass
AllSymbols(f) == [Elems -> Elements(f)]

\* C1 (decodability): once the packets absorbed since initialize span the
\* whole k-dimensional space, in whatever order and mix of coded and raw
\* they came, the rank is k, is_complete() holds and every payload row
\* S[i] is source symbol i; in the binary and in the non-binary field.
Decodability ==
    (symbols > 0 /\ Dim(absorbed) = symbols) =>
        /\ rank(Self) = symbols
        /\ is_complete(Self)
        /\ \A i \in Block : S[i] = Original(i)

\* a non-binary block of at least two symbols completed by a coded packet,
\* with raw and coded rows side by side
DecodabilityWitness ==
    /\ field = "prime3"
    /\ symbols >= 2
    /\ Dim(absorbed) = symbols
    /\ last.op = "decode" /\ last.outcome = "stored"
    /\ \E i, j \in Block : m_coded[i] /\ m_uncoded[j]

\* C2 (dependent coded packet): a decode whose coefficient vector is a
\* linear combination of the packets absorbed before it (the zero vector
\* included) leaves rank, max_pivot, uncoded, coded and every row V[i], S[i]
\* as they were.
DependentDecodeNoChange ==
    [][(last'.op = "decode" /\ last'.inspan) => UNCHANGED decoder]_vars

\* a dependent coded packet was just handed to a partly filled decoder
DependentDecodeWitness ==
    /\ last.op = "decode" /\ last.inspan /\ last.outcome = "dependent"
    /\ 0 < m_rank /\ m_rank < symbols

\* C3 (progress dichotomy), as claimed: every decode and decode_raw either
\* strictly increases rank or leaves rank, max_pivot, uncoded, coded, V and
\* S all unchanged.
ProgressDichotomy ==
    [][(last'.op \in {"decode", "decode_raw"}) =>
          (m_rank' > m_rank \/ UNCHANGED decoder)]_vars

\* C4 (duplicate raw packet): in every reachable state, decode_raw(sd, i)
\* on a slot i that is already uncoded returns the decoder unchanged in
\* every member and every row, whatever payload sd is passed.
RawDuplicateNoop ==
    \A i \in Block : m_uncoded[i] =>
        \A sd \in AllSymbols(field) : decode_raw(field, Self, sd, i).d = Self

\* a raw symbol was just handed in for a slot that was already uncoded
RawDuplicateWitness ==
    /\ last.op = "decode_raw" /\ last.outcome = "duplicate"
    /\ m_uncoded[last.index] /\ m_rank < symbols

\* C5 (rank bound): after initialize and any calls, rank() <= k, and
\* is_complete() is true exactly when rank() = k.
RankBound ==
    symbols > 0 =>
        /\ rank(Self) <= symbols
        /\ is_complete(Self) <=> (rank(Self) = symbols)

\* a swap whose re-absorbed row filled the last empty slot of the block
RankBoundWitness ==
    /\ last.op = "decode_raw" /\ last.outcome = "swap_stored"
    /\ is_complete(Self) /\ rank(Self) = symbols /\ symbols >= 2

\* C6 (INV-2): rank is the number of occupied slots of the block, after
\* initialize, decode, a raw insertion into an empty slot, and a swap
\* whether or not its re-absorption found a pivot.
RankIsOccupancy ==
    m_rank = Cardinality({i \in Block : Occupied(i)})

\* a swap whose re-absorbed row was dropped as dependent
RankIsOccupancyWitness ==
    /\ last.op = "decode_raw" /\ last.outcome = "swap_dropped"
    /\ m_uncoded[last.index] /\ m_rank > 0

\* C7 (INV-3): max_pivot is the largest occupied slot when rank > 0 and 0
\* when rank = 0; no slot above max_pivot is occupied.
MaxPivotIsLargestOccupied ==
    /\ m_rank > 0 =>
          /\ m_maximum_pivot \in Block
          /\ Occupied(m_maximum_pivot)
    /\ m_rank = 0 => m_maximum_pivot = 0
    /\ \A i \in Block : Occupied(i) => i <= m_maximum_pivot

\* a coded packet stored at a pivot below a slot that was occupied already
MaxPivotWitness ==
    /\ last.op = "decode" /\ last.outcome = "stored"
    /\ last.pivot < m_maximum_pivot

\* C8 (INV-1, uncoded slots): no slot is both uncoded and coded, and an
\* uncoded slot i holds exactly V[i] = e_i and S[i] = source symbol i,
\* whether it was filled by a raw insertion or by the swap path.
UncodedSlots ==
    \A i \in Block :
        /\ ~(m_uncoded[i] /\ m_coded[i])
        /\ m_uncoded[i] => (V[i] = Unit(i) /\ S[i] = Original(i))

\* a swap has just made slot last.index uncoded and moved its old row on
UncodedSlotsWitness ==
    /\ last.op = "decode_raw" /\ last.outcome = "swap_stored"
    /\ m_uncoded[last.index] /\ m_coded[last.pivot]

\* C9 (INV-1, coded slots): a coded row i has coefficient exactly 1 at
\* column i and 0 at every occupied column j < i, in both fields, also
\* after backward substitution has rewritten the row.
CodedSlots ==
    \A i \in Block : m_coded[i] =>
        /\ V[i][i] = 1
        /\ \A j \in Block : (j < i /\ Occupied(j)) => V[i][j] = 0

\* in the non-binary field, a coded row other than the one just stored was
\* rewritten by the backward substitution of the last packet
CodedSlotsWitness ==
    /\ field = "prime3"
    /\ last.op = "decode" /\ last.outcome = "stored"
    /\ \E i \in last.touched : i # last.pivot /\ m_coded[i]

\* C10 (INV-4, reduced form): a coded row i has coefficient 0 at the column
\* of every other occupied slot, uncoded or coded; also right after a swap.
ReducedForm ==
    \A i \in Block : m_coded[i] =>
        \A j \in Block : (j # i /\ Occupied(j)) => V[i][j] = 0

\* right after a swap, with a coded row left over besides the re-absorbed one
ReducedFormWitness ==
    /\ last.op = "decode_raw" /\ last.outcome = "swap_stored"
    /\ \E i \in Block : m_coded[i] /\ i # last.pivot

\* decode(c) called in the current state with the consistent coded packet
\* c of coefficient vector sv: the decoder it leaves, its outcome and pivot
Coded(sv) ==
    Only({decode(field, Self, sd, sv) : sd \in {Encode(field, sv)}})

\* the decoder after decode_raw(x_i, i) and then decode(c)
RawThenCoded(sv, i) ==
    Only({decode(field, d1, sd, sv).d :
            d1 \in {decode_raw(field, Self, Original(i), i).d},
            sd \in {Encode(field, sv)}})

\* C11 (swap equivalence): from every reachable state with slot i empty and
\* for every consistent coded packet c that decode stores at pivot i there,
\* decode(c) followed by decode_raw(x_i, i) ends in the same rank,
\* max_pivot, bitsets and rows V, S as decode_raw(x_i, i) followed by
\* decode(c).
SwapEquivalence ==
    \A sv \in Vectors(field, symbols) : \A c \in {Coded(sv)} :
        (c.outcome = "stored" /\ ~Occupied(c.pivot)) =>
            decode_raw(field, c.d, Original(c.pivot), c.pivot).d
                = RawThenCoded(sv, c.pivot)

\* a state with a coded row in which some packet resolves to an empty slot
\* i with a remainder beyond column i, so that the swap of the first order
\* stores the remainder at a new pivot; the two orders agree
SwapEquivalenceWitness ==
    /\ \E j \in Block : m_coded[j]
    /\ \E sv \in Vectors(field, symbols) : \E c \in {Coded(sv)} :
          /\ c.outcome = "stored" /\ ~Occupied(c.pivot)
          /\ \E e \in {decode_raw(field, c.d, Original(c.pivot), c.pivot).d} :
                /\ e.m_uncoded[c.pivot]
                /\ \E p \in Block : p > c.pivot /\ e.m_coded[p] /\ ~Occupied(p)
                /\ e = RawThenCoded(sv, c.pivot)

\* the state of slot i: "empty", "coded" or "uncoded" ("both" if the two
\* flags were ever set together)
SlotState(unc, cod, i) ==
    IF unc[i] /\ cod[i] THEN "both"
    ELSE IF unc[i] THEN "uncoded"
    ELSE IF cod[i] THEN "coded"
    ELSE "empty"

\* C12 (per-slot state machine): in every step other than initialize, each
\* slot of the block either stays as it is or moves empty -> coded (only as
\* the pivot at which the coded-packet algorithm stored a row, be it run by
\* decode or nested in the swap), empty -> uncoded (only by decode_raw on
\* that slot), or coded -> uncoded (only by decode_raw on that slot taking
\* the swap path); so an occupied slot never becomes empty, an uncoded slot
\* never becomes coded, and rank never decreases.
SlotStateMachine ==
    [][(last'.op # "initialize") =>
          /\ m_rank' >= m_rank
          /\ \A i \in Block :
                \/ SlotState(m_uncoded', m_coded', i) = SlotState(m_uncoded, m_coded, i)
                \/ /\ SlotState(m_uncoded, m_coded, i) = "empty"
                   /\ SlotState(m_uncoded', m_coded', i) = "coded"
                   /\ last'.outcome \in {"stored", "swap_stored"}
                   /\ last'.pivot = i
                \/ /\ SlotState(m_uncoded, m_coded, i) = "empty"
                   /\ SlotState(m_uncoded', m_coded', i) = "uncoded"
                   /\ last'.op = "decode_raw" /\ last'.outcome = "raw"
                   /\ last'.index = i
                \/ /\ SlotState(m_uncoded, m_coded, i) = "coded"
                   /\ SlotState(m_uncoded', m_coded', i) = "uncoded"
                   /\ last'.op = "decode_raw"
                   /\ last'.outcome \in {"swap_stored", "swap_dropped"}
                   /\ last'.index = i]_vars

\* a swap has just moved one slot coded -> uncoded and another empty ->
\* coded, next to a slot that was uncoded before
SlotStateMachineWitness ==
    /\ last.op = "decode_raw" /\ last.outcome = "swap_stored"
    /\ SlotState(m_uncoded, m_coded, last.index) = "uncoded"
    /\ SlotState(m_uncoded, m_coded, last.pivot) = "coded"
    /\ \E j \in Block : j # last.index /\ m_uncoded[j]

\* C13 (terminal state), as claimed: whenever rank = k, i.e. is_complete()
\* holds, every slot of the block is flagged uncoded; a coded row that
\* backward substitution has reduced to e_i is reported as uncoded.
CompleteIsAllUncoded ==
    (symbols > 0 /\ is_complete(Self)) => \A i \in Block : m_uncoded[i]

\* what the public interface and the algorithm can see of a decoder d
\* initialized for k symbols: the answers of rank(), is_complete() and
\* symbol_exists(i), the maximum pivot, and the flags and rows of the block
View(d) ==
    [symbols |-> d.symbols, rank |-> rank(d), is_complete |-> is_complete(d),
     m_maximum_pivot |-> d.m_maximum_pivot,
     symbol_exists |-> [i \in 0 .. (d.symbols - 1) |-> symbol_exists(d, i)],
     m_uncoded |-> [i \in 0 .. (d.symbols - 1) |-> d.m_uncoded[i]],
     m_coded |-> [i \in 0 .. (d.symbols - 1) |-> d.m_coded[i]],
     V |-> [i \in 0 .. (d.symbols - 1) |-> d.V[i]],
     S |-> [i \in 0 .. (d.symbols - 1) |-> d.S[i]]]

\* C14 (re-initialization): initialize(k, m), 0 < k <= k_max, called in any
\* reachable state, leaves rank() = 0, max_pivot = 0, is_complete() false
\* and symbol_exists(i) false for every i < k; and from then on, whatever
\* packets follow, the decoder shows the same as a freshly constructed
\* decoder initialized with (k, m) and given the same packets.
InitializeResets ==
    /\ last.op = "initialize" =>
          /\ rank(Self) = 0
          /\ m_maximum_pivot = 0
          /\ ~is_complete(Self)
          /\ \A i \in Block : ~symbol_exists(Self, i)
    /\ symbols > 0 => View(Self) = View(fresh)

\* packets have been absorbed in a block that was initialized while the
\* decoder still held a larger block: flags of that block are left beyond k
InitializeResetsWitness ==
    /\ symbols > 0 /\ m_rank > 0
    /\ \E i \in Slots : i >= symbols /\ (m_uncoded[i] \/ m_coded[i])
    /\ last.op \in {"decode", "decode_raw"}

\* C15 (payload rows blanked): right after initialize(k, m) of the storage,
\* whatever set_symbol / set_symbols or row writes stored before and
\* whatever the earlier symbols and symbol_size were, every byte of every
\* row symbol(i), i < k, reads as zero, the whole buffer being zero.
InitializeBlanksRows ==
    st_last.op = "initialize" =>
        /\ \A i \in 0 .. (st_symbols - 1) :
              \A b \in 0 .. (st_symbol_size - 1) : symbol(Storage, i)[b] = 0
        /\ \A b \in DataIndex : m_data[b] = 0

\* initialize has just been called on a storage that held non-zero bytes,
\* for a block of fewer and larger symbols than the one it held
InitializeBlanksRowsWitness ==
    /\ st_last.op = "initialize"
    /\ st_last.stored
    /\ st_last.symbols > st_symbols
    /\ st_last.symbol_size < st_symbol_size

RECURSIVE ReducedBelow(_, _, _)
ReducedBelow(w, p, j) ==
    IF j >= p THEN w
    ELSE IF Occupied(j) /\ w[j] # 0
         THEN Only({ReducedBelow(w2, p, j + 1) :
                      w2 \in {[c \in Slots |->
                                 FieldSub(field, w[c], FieldMul(field, w[j], V[j][c]))]}})
         ELSE ReducedBelow(w, p, j + 1)

\* the empty slots at which the vector sv, reduced by the occupied slots
\* below, has a non-zero coefficient
PivotCandidates(sv) ==
    {p \in Block : ~Occupied(p) /\ ReducedBelow(sv, p, 0)[p] # 0}

Least(set) == CHOOSE p \in set : \A q \in set : p <= q

\* C17 (pivot selection): in every reachable state and for every coded
\* packet, decode stores the packet exactly when some empty slot has a
\* non-zero residual coefficient; the slot that becomes coded is then the
\* smallest such slot, rank grows by exactly 1 and max_pivot becomes
\* max(old max_pivot, p).
PivotSelection ==
    \A sv \in Vectors(field, symbols) : \A c \in {Coded(sv)} :
        \A cand \in {PivotCandidates(sv)} :
            /\ (c.outcome = "stored") <=> (cand # {})
            /\ (c.outcome = "stored") =>
                  /\ c.pivot = Least(cand)
                  /\ c.d.m_coded[c.pivot] /\ ~m_coded[c.pivot]
                  /\ c.d.m_rank = m_rank + 1
                  /\ c.d.m_maximum_pivot =
                        IF c.pivot > m_maximum_pivot THEN c.pivot
                        ELSE m_maximum_pivot

\* a state in which some packet has a non-zero coefficient at an empty slot
\* that the reduction by a lower occupied slot cancels, so that the pivot
\* is a later slot
PivotSelectionWitness ==
    /\ last.op = "decode" /\ m_rank > 0
    /\ \E sv \in Vectors(field, symbols) : \E c \in {Coded(sv)} :
          /\ c.outcome = "stored"
          /\ c.pivot = Least(PivotCandidates(sv))
          /\ \E e, j \in Block :
                /\ j < e /\ e < c.pivot
                /\ Occupied(j) /\ sv[j] # 0
                /\ ~Occupied(e) /\ sv[e] # 0

\* C18 (forward substitution past the pivot): whenever the coded-packet
\* algorithm, run by decode or nested in a swap, has found a pivot p, the
\* working coefficient vector it ends with, which step 3 has left, has
\* coefficient 0 at every slot that was occupied when the call began and
\* coefficient 1 at p.
ReducedPastPivot ==
    [][(last'.outcome \in {"stored", "swap_stored"}) =>
          /\ last'.vector[last'.pivot] = 1
          /\ \A j \in Block : Occupied(j) => last'.vector[j] = 0]_vars

\* in the non-binary field, a packet was stored at a pivot that has coded
\* rows both below it and above it
ReducedPastPivotWitness ==
    /\ field = "prime3"
    /\ last.op = "decode" /\ last.outcome = "stored"
    /\ last.vector = V[last.pivot]
    /\ \E j, h \in Block :
          j < last.pivot /\ last.pivot < h /\ m_coded[j] /\ m_coded[h]

\* normalize, called on the working pair `to` that forward_substitute_to_pivot
\* has returned with a pivot, gets a non-zero coefficient at the pivot and
\* leaves the vector with coefficient 1 there, vector and payload both
\* multiplied by the inverse of that coefficient
NormalizeSound(to) ==
    /\ coefficient(to.pivot, to.symbol_id) # 0
    /\ \E n \in {normalize(field, to.symbol_data, to.symbol_id, to.pivot)} :
          /\ coefficient(to.pivot, n.symbol_id) = 1
          /\ \E c \in Elements(field) :
                /\ FieldMul(field, c, coefficient(to.pivot, to.symbol_id)) = 1
                /\ n.symbol_id = [j \in Slots |-> FieldMul(field, to.symbol_id[j], c)]
                /\ n.symbol_data = [e \in Elems |-> FieldMul(field, to.symbol_data[e], c)]

\* what forward_substitute_to_pivot returns for the packet of vector sv
ToPivot(sv) ==
    Only({forward_substitute_to_pivot(field, Self, sd, sv) : sd \in {Encode(field, sv)}})

\* what forward_substitute_to_pivot returns in the nested run of
\* swap_decode(x_i, i)
SwapToPivot(i) ==
    Only({forward_substitute_to_pivot(field, d1, d1.S[i], d1.V[i]) :
            d1 \in {swap_clear(field, Self, Original(i), i)}})

\* C19 (no inversion of zero): in a non-binary field, in every reachable
\* state, for every packet handed to decode and for the row re-absorbed by
\* a swap, normalize is reached only with a non-zero coefficient at the
\* chosen pivot, and it leaves coefficient exactly 1 there with the payload
\* scaled by the same inverse.
NormalizeNeverInvertsZero ==
    ~is_binary(field) =>
        /\ \A sv \in Vectors(field, symbols) : \A to \in {ToPivot(sv)} :
              to.found => NormalizeSound(to)
        /\ \A i \in Block : m_coded[i] =>
              \A to \in {SwapToPivot(i)} : to.found => NormalizeSound(to)

\* a non-binary state in which some packet reaches normalize, after rows
\* have been subtracted from it, with a coefficient other than 1 at the
\* pivot, and in which a swap would re-absorb a row that finds a pivot
NormalizeWitness ==
    /\ ~is_binary(field) /\ last.op = "decode" /\ last.outcome = "stored"
    /\ \E sv \in Vectors(field, symbols) : \E to \in {ToPivot(sv)} :
          /\ to.found /\ to.symbol_id # sv
          /\ coefficient(to.pivot, to.symbol_id) \notin {0, 1}
    /\ \E i \in Block : m_coded[i] /\ SwapToPivot(i).found

\* decode_raw(x_i, i) called in the current state
Raw(i) == decode_raw(field, Self, Original(i), i)

\* C20 (swap re-absorption): in every reachable state and for every coded
\* slot i, the row that decode_raw(x_i, i) re-absorbs, after V[i][i] has
\* been zeroed and x_i subtracted from S[i], has coefficient 0 at every
\* column <= i; the nested run either stores it as a coded row at a pivot
\* p > i that was empty, or drops it as dependent; slot i is not chosen
\* as pivot again and no slot other than i leaves the coded state.
SwapReabsorption ==
    \A i \in Block : m_coded[i] =>
        /\ \A c \in Block :
              c <= i => swap_clear(field, Self, Original(i), i).V[i][c] = 0
        /\ \A r \in {Raw(i)} :
              /\ r.outcome \in {"swap_stored", "swap_dropped"}
              /\ r.d.m_uncoded[i] /\ ~r.d.m_coded[i]
              /\ \A j \in Block : (j # i /\ m_coded[j]) => r.d.m_coded[j]
              /\ \A j \in Block : m_uncoded[j] <=> (r.d.m_uncoded[j] /\ j # i)
              /\ (r.outcome = "swap_stored") =>
                    /\ r.pivot > i
                    /\ ~Occupied(r.pivot)
                    /\ r.d.m_coded[r.pivot]
                    /\ r.d.m_rank = m_rank + 1
              /\ (r.outcome = "swap_dropped") =>
                    /\ r.d.m_rank = m_rank
                    /\ \A j \in Block : r.d.m_coded[j] => m_coded[j]

\* a swap at slot i has just stored the re-absorbed row beyond the next
\* slot, which is occupied, while another coded slot would be dropped by
\* its swap
SwapReabsorptionWitness ==
    /\ last.op = "decode_raw" /\ last.outcome = "swap_stored"
    /\ last.pivot > last.index + 1
    /\ Occupied(last.index + 1)
    /\ \E i \in Block : m_coded[i] /\ Raw(i).outcome = "swap_dropped"

\* the orders in which the rows 0 .. n can be visited
Orders ==
    [n \in Slots |->
        {order \in [0 .. n -> 0 .. n] :
            \A a, b \in 0 .. n : order[a] = order[b] => a = b}]

\* the loop body of backward_substitute run for the rows order[n],
\* order[n + 1], ..., order[max_pivot]
RECURSIVE BackwardInOrder(_, _, _, _, _, _)
BackwardInOrder(d, symbol_data, symbol_id, pivot_index, order, n) ==
    IF n > d.m_maximum_pivot THEN d
    ELSE Only({BackwardInOrder(e, symbol_data, symbol_id, pivot_index, order, n + 1) :
                 e \in {backward_step(field, d, symbol_data, symbol_id,
                                      pivot_index, order[n])}})

\* every order of the rows gives what backward_substitute gives
AnyOrder(d, symbol_data, symbol_id, pivot_index) ==
    \A asc \in {backward_substitute(field, d, symbol_data, symbol_id, pivot_index)} :
        \A order \in Orders[d.m_maximum_pivot] :
            BackwardInOrder(d, symbol_data, symbol_id, pivot_index, order, 0) = asc

\* the coefficient vectors with which step 4 can be entered for pivot p: 1
\* at p, 0 below p and at every occupied slot
PivotRows(p) ==
    {w \in Vectors(field, symbols) :
        /\ w[p] = 1
        /\ \A j \in Block : (j < p \/ Occupied(j)) => w[j] = 0}

\* C21 (order independence of the backward pass): in every reachable state,
\* for every row that the coded-packet algorithm can bring to step 4 and
\* for every raw symbol inserted into an empty slot, running the loop body
\* of backward_substitute over the rows 0 .. max_pivot in any order leaves
\* the same V and S rows as the ascending order of the code.
BackwardOrderIndependent ==
    \A p \in Block : ~Occupied(p) =>
        /\ \A w \in PivotRows(p) :
              \A sd \in {Encode(field, w)} : AnyOrder(Self, sd, w, p)
        /\ \A d1 \in {store_uncoded_symbol(Self, Original(p), p)} :
              AnyOrder(d1, Original(p), d1.V[p], p)

\* the backward pass of the last packet has rewritten two rows besides the
\* one it stored
BackwardOrderWitness ==
    /\ last.op = "decode" /\ last.outcome = "stored"
    /\ \E i, j \in last.touched :
          i # j /\ i # last.pivot /\ j # last.pivot /\ m_coded[i] /\ m_coded[j]

\* C22 (uncoded rows are frozen): no decode and no decode_raw call, swaps
\* on other slots and backward substitutions included, changes V[i] or
\* S[i] of a slot i that is uncoded, and the slot stays uncoded.
UncodedRowsFrozen ==
    [][(last'.op \in {"decode", "decode_raw"}) =>
          \A i \in Block : m_uncoded[i] =>
              (V'[i] = V[i] /\ S'[i] = S[i] /\ m_uncoded'[i])]_vars

\* next to an uncoded slot, the last packet was stored and its backward
\* substitution rewrote a coded row
UncodedRowsFrozenWitness ==
    /\ last.op = "decode" /\ last.outcome = "stored"
    /\ \E i \in Block : m_uncoded[i] /\ i \notin last.touched
    /\ \E j \in last.touched : j # last.pivot /\ m_coded[j]

\* C23 (row consistency): all absorbed packets being consistent, after
\* every public operation the payload of every occupied slot is the
\* combination of the source symbols that its coefficient row states,
\* S[i] = sum over j of V[i][j] * x_j, in both fields.
RowsConsistent ==
    \A i \in Block : Occupied(i) => S[i] = Encode(field, V[i])

\* in the non-binary field, a swap has just moved a row to a new pivot and
\* the backward substitution of that row has rewritten another coded row
RowsConsistentWitness ==
    /\ field = "prime3"
    /\ last.op = "decode_raw" /\ last.outcome = "swap_stored"
    /\ \E j \in last.touched :
          j # last.pivot /\ j # last.index /\ m_coded[j]

\* C24 (rank is the linear rank): in every state after initialize, rank()
\* is the dimension of the span of the coefficient vectors of the packets
\* absorbed so far (e_i for raw symbol i), and the V rows of the occupied
\* slots span exactly that space: each of them lies in it, and each vector
\* of its basis reduces to zero against them; and every decode raises the
\* rank by exactly 1 if its vector lies outside the span and by 0 if not.
RankIsLinearRank ==
    /\ [](symbols > 0 =>
            /\ rank(Self) = Dim(absorbed)
            /\ \A i \in Block : Occupied(i) => InSpan(field, absorbed, V[i])
            /\ \A j \in Lead(absorbed) :
                  ReducedBelow(absorbed[j], symbols, 0) = ZeroVector)
    /\ [][(last'.op = "decode") =>
             m_rank' = m_rank + (IF last'.inspan THEN 0 ELSE 1)]_vars

\* a coded packet from outside the span has just raised the rank of a
\* decoder that holds a coded row with more than one non-zero coefficient
RankIsLinearRankWitness ==
    /\ last.op = "decode" /\ ~last.inspan /\ last.outcome = "stored"
    /\ rank(Self) = Dim(absorbed) /\ rank(Self) >= 2 /\ rank(Self) < symbols
    /\ \E i \in Block : m_coded[i] /\ V[i] # Unit(i)

\* C25 (empty slots hold blank rows): the vector storage being all-zero
\* after initialize, in every reachable state every slot of the block that
\* is neither uncoded nor coded has an all-zero V[i], and
\* store_uncoded_symbol, which sets column i to 1 and clears nothing,
\* leaves exactly e_i there on a raw insertion.
EmptyRowsBlank ==
    \A i \in Block : ~Occupied(i) =>
        /\ V[i] = ZeroVector
        /\ store_uncoded_symbol(Self, Original(i), i).V[i] = Unit(i)

\* a raw symbol has just been inserted into an empty slot of a block that
\* was initialized over an earlier, larger one, next to a slot still empty
EmptyRowsBlankWitness ==
    /\ last.op = "decode_raw" /\ last.outcome = "raw"
    /\ V[last.index] = Unit(last.index)
    /\ \E j \in Block : ~Occupied(j) /\ V[j] = ZeroVector
    /\ \E h \in Slots : h >= symbols /\ (m_uncoded[h] \/ m_coded[h])

\* the assertions of swap_decode on its slot
swap_decode_asserts(d, pivot_index) ==
    /\ d.m_coded[pivot_index] = TRUE
    /\ d.m_uncoded[pivot_index] = FALSE
    /\ coefficient(pivot_index, d.V[pivot_index]) = 1

\* the assertions of normalize on its pivot
normalize_asserts(d, symbol_id, pivot_index) ==
    /\ pivot_index < d.symbols
    /\ d.m_uncoded[pivot_index] = FALSE
    /\ d.m_coded[pivot_index] = FALSE
    /\ coefficient(pivot_index, symbol_id) > 0

\* the assertions of forward_substitute_from_pivot on its pivot
forward_substitute_from_pivot_asserts(d, pivot_index) ==
    /\ pivot_index < d.symbols
    /\ d.m_uncoded[pivot_index] = FALSE
    /\ d.m_coded[pivot_index] = FALSE

\* the assertion of backward_substitute on its pivot
backward_substitute_asserts(d, pivot_index) == pivot_index < d.symbols

\* the assertions of store_coded_symbol on its slot
store_coded_symbol_asserts(d, pivot_index) ==
    /\ d.m_uncoded[pivot_index] = FALSE
    /\ d.m_coded[pivot_index] = FALSE

\* the assertions of store_uncoded_symbol on its slot
store_uncoded_symbol_asserts(d, pivot_index) ==
    /\ d.m_uncoded[pivot_index] = FALSE
    /\ d.m_coded[pivot_index] = FALSE

\* the assertions met by decode_with_vector after forward_substitute_to_pivot
\* has returned `to`, each against the decoder as its function is entered
decode_from_pivot_asserts(f, d, to) ==
    to.found =>
        /\ ~is_binary(f) => normalize_asserts(d, to.symbol_id, to.pivot)
        /\ forward_substitute_from_pivot_asserts(d, to.pivot)
        /\ backward_substitute_asserts(d, to.pivot)
        /\ \A w \in {IF is_binary(f) THEN to
                     ELSE normalize(f, to.symbol_data, to.symbol_id, to.pivot)} :
              \A from \in {forward_substitute_from_pivot(
                              f, d, w.symbol_data, w.symbol_id, to.pivot)} :
                 \A e \in {backward_substitute(f, d, from.symbol_data,
                                               from.symbol_id, to.pivot)} :
                    store_coded_symbol_asserts(e, to.pivot)

\* the assertions met by decode_with_vector(symbol_data, symbol_id)
decode_with_vector_asserts(f, d, symbol_data, symbol_id) ==
    \A to \in {forward_substitute_to_pivot(f, d, symbol_data, symbol_id)} :
        decode_from_pivot_asserts(f, d, to)

\* the assertions met by swap_decode(symbol_data, pivot_index), those of
\* the nested decode_with_vector and of the closing store_uncoded_symbol
\* included
swap_decode_all_asserts(f, d, symbol_data, pivot_index) ==
    /\ swap_decode_asserts(d, pivot_index)
    /\ \A d1 \in {swap_clear(f, d, symbol_data, pivot_index)} :
          /\ decode_with_vector_asserts(f, d1, d1.S[pivot_index],
                                        d1.V[pivot_index])
          /\ \A re \in {decode_with_vector(f, d1, d1.S[pivot_index],
                                           d1.V[pivot_index])} :
                store_uncoded_symbol_asserts(re.d, pivot_index)

\* the assertions met by decode_raw(symbol_data, symbol_index) past its
\* own two
decode_raw_asserts(f, d, symbol_data, symbol_index) ==
    IF d.m_uncoded[symbol_index]
    THEN TRUE
    ELSE IF d.m_coded[symbol_index]
    THEN swap_decode_all_asserts(f, d, symbol_data, symbol_index)
    ELSE /\ store_uncoded_symbol_asserts(d, symbol_index)
         /\ backward_substitute_asserts(d, symbol_index)

\* C26 (no internal assertion fails): in every reachable state, for every
\* packet handed to decode and every raw symbol x_i with i < k handed to
\* decode_raw, every assertion inside the decoder holds: swap_decode sees
\* the slot coded, not uncoded, with V[i][i] = 1; normalize,
\* forward_substitute_from_pivot and store_coded_symbol are entered with the
\* pivot slot neither uncoded nor coded (normalize with a non-zero
\* coefficient); store_uncoded_symbol is entered with both flags of its
\* slot false, at the end of a swap as well.
NoAssertionFails ==
    /\ \A sv \in Vectors(field, symbols) : \A sd \in {Encode(field, sv)} :
          decode_with_vector_asserts(field, Self, sd, sv)
    /\ \A i \in Block : decode_raw_asserts(field, Self, Original(i), i)

\* a swap has just stored its re-absorbed row in a non-binary field, and
\* the coded row it stored would in turn be swapped out and re-absorbed at
\* a pivot that is still empty
NoAssertionFailsWitness ==
    /\ ~is_binary(field)
    /\ last.op = "decode_raw" /\ last.outcome = "swap_stored"
    /\ m_coded[last.pivot] /\ swap_decode_asserts(Self, last.pivot)
    /\ SwapToPivot(last.pivot).found
    /\ ~Occupied(SwapToPivot(last.pivot).pivot)

=============================================================================
